---- MODULE Spec2Model ----
(***************************************************************************)
(* State-machine model of rover_navigation/task_executor.py                *)
(* (AutonomyTaskExecutor): the mission thread of action_server_callback,   *)
(* the Nav2 action goals it submits, polls and cancels, the perception     *)
(* callbacks that write found_poses, and the action client's cancel        *)
(* request.                                                                *)
(*                                                                         *)
(* Coordinates are integers in units of 1e-7 degree.                       *)
(***************************************************************************)
EXTENDS Integers, Sequences, FiniteSets, TLC

\* ------------------------------------------------------------------ bounds
\* Longest leg list of one RunTask request.
MaxLegs == 2
\* Canceled goals of earlier submissions that the servers have not finished yet.
MaxOld == 1
\* Material changes of the tracked pose during one convergence loop.
MaxUpdates == 2

\* ------------------------------------------------------- program constants
gps_legs == {"gps1", "gps2"}
aruco_legs == {"aruco1", "aruco2", "aruco3"}
obj_legs == {"mallet", "bottle"}
tags == [l \in aruco_legs |-> CASE l = "aruco1" -> 1 [] l = "aruco2" -> 2 [] OTHER -> 3]

\* self.update_threshold = 0.000005 degree
update_threshold == 50
\* self.hex_scalar = 0.0001 degree
hex_scalar == 1000
\* self.hex_coord, in thousandths
hex_coord == << <<1000, 0>>, <<500, 866>>, <<-500, 866>>,
                <<-1000, 0>>, <<-500, -866>>, <<500, -866>> >>

OrderPlanners == {"bruteOrderPlanner", "greedyOrderPlanner",
                  "terrainOrderPlanner", "noOrderPlanner"}
PathPlanners == {"basicPathPlanner", "terrainPathPlanner"}

\* ------------------------------------------------------------------ inputs
\* Leg identifiers a request may name: valid legs with a waypoint, a valid leg
\* without one ("gps2") and an identifier of no leg type ("rock").
LegIds == {"gps1", "gps2", "aruco1", "mallet", "rock"}
\* The waypoint table read by waypointParser (leg |-> <<latitude, longitude>>).
wps == [l \in {"gps1", "aruco1", "mallet"} |->
          CASE l = "gps1" -> <<0, 0>>
            [] l = "aruco1" -> <<20000, 0>>
            [] OTHER -> <<0, 20000>>]
\* Offsets of a converted detection from the leg's nominal waypoint.
DetOffsets == {<<200, 0>>, <<250, 0>>, <<200, 51>>}
\* Parameter values of order_planner and path_planner.
OrderNames == {"greedyOrderPlanner", "xOrderPlanner"}
PathNames == {"basicPathPlanner", "xPathPlanner"}
\* Marker ids and object labels a perception message may carry.
MarkerIds == {1, 2}
ObjLabels == {"mallet", "bottle"}

None == << >>
\* The two PatchRclpyIssue1123 instances and the control flows that call them: the
\* mission thread and the executor thread that runs execute().
Clients == {"path", "spin"}
Flows == {"mission", "executor"}
\* The RunTask requests the action server gets.
Requests == {"request1", "request2"}
FlowIdle == [pc |-> "idle", client |-> "none", op |-> "none", ref |-> "None"]
Keys == LegIds \cup {"start", "end", "none"}

VARIABLES
  pc,             \* position of the mission thread
  legs,           \* self.legs
  legIdx,         \* index of the for loop of exec_autonomy_task
  leg,            \* self.leg
  phase,          \* which call of gps_nav / spin_search is running
  hexI,           \* loop index i of hex_search (1-based)
  found_loc,      \* found_loc of exec_leg, the dest_wp of the convergence loop
  result,         \* status of task_goal_handle and result.msg
  exc,            \* the exception caught by action_server_callback
  cancelReq,      \* task_goal_handle.is_cancel_requested
  filtered_gps,   \* self.filtered_gps is not None
  nav2Active,     \* bt_navigator reports "active"
  servers,        \* the action servers ("path", "spin") wait_for_server finds
  order_planner,  \* self.order_planner
  path_planner,   \* self.path_planner
  found_poses,    \* self.found_poses
  cb,             \* position of the running perception callback
  cbError,        \* a perception callback raised KeyError
  goal_handle,    \* self.goal_handle: "none", "accepted", "rejected"
  result_future,  \* self.result_future is set
  cur,            \* the goal self.result_future belongs to
  status,         \* self.status, from the isTaskComplete that sets it to the
                  \* getResult that reads it (nothing else reads it)
  oldExec,        \* earlier goals still executing with no cancel sent
  oldCanceling,   \* earlier goals canceled and not finished yet
  modeCalls,      \* mode-switch calls of the current request, in order
  mode,           \* the most recent mode-switch call
  lastSubmit,     \* the goal sent by the running gps_nav / spin_search call
  lastCancel,     \* the cancelTask call made since the last goal was sent
  failedAt,       \* index of the leg that ended "Could not find", or 0
  attempts,       \* gps_nav calls made by the running convergence loop
  updates,        \* changes of the tracked pose, material against the destination
                  \* of the running gps_nav call, since that loop started
  lock,           \* client._lock of each action client: "None" or the RLock in it,
                  \* named by the control flow that created it
  owner,          \* the control flow that holds each RLock, or "free"
  flow,           \* position of each control flow inside PatchRclpyIssue1123
  task_goal_handle, \* the request whose goal handle self.task_goal_handle is
  serve           \* the execute callback of each RunTask request: its position
                  \* and the legs of the request

ctlVars == <<pc, legs, legIdx, leg, phase, hexI, found_loc, result, exc, failedAt>>
navVars == <<goal_handle, result_future, cur, status, oldExec, oldCanceling>>
envVars == <<cancelReq, filtered_gps, nav2Active, servers>>
cfgVars == <<order_planner, path_planner>>
cbVars == <<found_poses, cb, cbError>>
modeVars == <<modeCalls, mode>>
logVars == <<lastSubmit, lastCancel>>
loopVars == <<attempts, updates>>
lockVars == <<lock, owner, flow>>
serveVars == <<task_goal_handle, serve>>
missionVars == <<ctlVars, navVars, envVars, cfgVars, cbVars, modeVars, logVars, loopVars>>
vars == <<ctlVars, navVars, envVars, cfgVars, cbVars, modeVars, logVars, loopVars,
          lockVars, serveVars>>

\* ----------------------------------------------------------------- helpers
Abs(x) == IF x < 0 THEN -x ELSE x

TargetLegs == aruco_legs \cup obj_legs

IsValidLeg(l) == l \in gps_legs \/ l \in aruco_legs \/ l \in obj_legs

\* Poses a detection matched against leg l can convert to.
DetPoses(l) == IF l \in DOMAIN wps
               THEN {<<wps[l][1] + o[1], wps[l][2] + o[2]>> : o \in DetOffsets}
               ELSE {<<o[1], o[2]>> : o \in DetOffsets}

AllPoses == UNION {DetPoses(l) : l \in Keys}

\* The vertex i of the hex pattern around the waypoint of leg l.
HexWp(l, i) == <<wps[l][1] + (hex_coord[i][1] * hex_scalar) \div 1000,
                 wps[l][2] + (hex_coord[i][2] * hex_scalar) \div 1000>>

Material_inclusive(pose, dest_wp) ==
  \/ Abs(pose[1] - dest_wp[1]) >= update_threshold
  \/ Abs(pose[2] - dest_wp[2]) >= update_threshold

\* The test of gps_nav for a significantly changed location.
Material(pose, dest_wp) ==
  \/ Abs(pose[1] - dest_wp[1]) > update_threshold
  \/ Abs(pose[2] - dest_wp[2]) > update_threshold

RECURSIVE Perms(_)
Perms(s) == IF Len(s) <= 1 THEN {s}
            ELSE UNION {{<<s[i]>> \o t :
                           t \in Perms(SubSeq(s, 1, i - 1) \o SubSeq(s, i + 1, Len(s)))}
                        : i \in 1..Len(s)}

\* The leg lists a RunTask request may carry (the order planner permutes them).
RequestLists == {<< >>, <<"gps1">>, <<"gps2">>, <<"rock">>, <<"aruco1">>, <<"mallet">>,
                 <<"gps1", "aruco1">>, <<"aruco1", "aruco1">>, <<"mallet", "gps1">>,
                 <<"rock", "gps1">>, <<"gps2", "gps1">>,
                 <<"gps1", "aruco1", "gps1">>, <<"rock", "gps1", "gps2">>}
LegLists == {ls \in RequestLists : Len(ls) <= MaxLegs}

NoGoal == [kind |-> "none", state |-> "none"]
NoSubmit == [kind |-> "none", phase |-> "none", leg |-> "none", dest |-> None]
NoCancel == [why |-> "none", leg |-> "none", sent |-> FALSE, was |-> "none"]
NoResult == [status |-> "none", msg |-> "none"]
Terminal == {"succeeded", "aborted", "canceled"}

\* found_check
found_check ==
  IF leg \in aruco_legs \/ leg \in obj_legs THEN found_poses[leg] ELSE None


\* -------------------------------------------------------------------- Init
Init ==
  /\ pc = "idle"
  /\ legs = << >>
  /\ legIdx = 0
  /\ leg = "none"
  /\ phase = "none"
  /\ hexI = 0
  /\ found_loc = None
  /\ result = NoResult
  /\ exc = "none"
  /\ cancelReq = FALSE
  /\ filtered_gps = FALSE
  /\ nav2Active = FALSE
  /\ servers = {}
  /\ order_planner \in OrderNames
  /\ path_planner \in PathNames
  /\ found_poses = [k \in Keys |-> None]
  /\ cb = [pc |-> "idle", label |-> "none"]
  /\ cbError = FALSE
  /\ goal_handle = "none"
  /\ result_future = FALSE
  /\ cur = NoGoal
  /\ status = "none"
  /\ oldExec = 0
  /\ oldCanceling = 0
  /\ modeCalls = << >>
  /\ mode = "none"
  /\ lastSubmit = NoSubmit
  /\ lastCancel = NoCancel
  /\ failedAt = 0
  /\ attempts = 0
  /\ updates = 0
  /\ lock = [c \in Clients |-> "None"]
  /\ owner = [c \in Clients |-> [g \in Flows |-> "free"]]
  /\ flow = [f \in Flows |-> FlowIdle]
  /\ task_goal_handle = "None"
  /\ serve = [r \in Requests |-> [pc |-> "none", legs |-> << >>]]

\* ------------------------------------------------- building blocks of steps
\* async_service_call on one of the three Trigger clients.
async_service_call(m) ==
  /\ modeCalls' = Append(modeCalls, [m |-> m, i |-> legIdx])
  /\ mode' = m

\* A step that moves the mission thread inside exec_leg and its callees.
Goto(p, ph, h, fl) ==
  /\ pc' = p
  /\ phase' = ph
  /\ hexI' = h
  /\ found_loc' = fl
  /\ lastSubmit' = NoSubmit
  /\ attempts' = IF ph = "converge" THEN attempts + 1 ELSE 0
  /\ updates' = IF ph = "converge" THEN updates ELSE 0
  /\ UNCHANGED <<legs, legIdx, leg, result, exc, failedAt>>

\* except Exception of action_server_callback: task_fatal, result.msg, abort().
except_handler_returns(e) ==
  /\ pc' = "returned"
  /\ result' = [status |-> "aborted", msg |-> "It was the aliens"]
  /\ exc' = e
  /\ lastSubmit' = NoSubmit
  /\ UNCHANGED <<legs, legIdx, leg, phase, hexI, found_loc, failedAt, loopVars>>

except_handler(e) ==
  /\ pc' = "trig_teleop"
  /\ result' = [status |-> "aborted", msg |-> "It was the aliens"]
  /\ exc' = e
  /\ lastSubmit' = NoSubmit
  /\ UNCHANGED <<legs, legIdx, leg, phase, hexI, found_loc, failedAt, loopVars>>

\* The state of the goal that self.goal_handle stands for.
HandleState == CASE goal_handle = "accepted" -> cur.state
                 [] goal_handle = "rejected" -> "rejected"
                 [] OTHER -> "none"

\* cancelTask: a cancel request goes to the goal of self.goal_handle whenever
\* self.result_future is set.
cancelTask_skipped(why) ==
  /\ lastCancel' = [why |-> why, leg |-> leg, sent |-> FALSE, was |-> HandleState]
  /\ UNCHANGED navVars

cancelTask_checks_handle(why) ==
  /\ lastCancel' = [why |-> why, leg |-> leg,
                    sent |-> result_future /\ HandleState = "executing",
                    was |-> HandleState]
  /\ cur' = IF result_future /\ goal_handle = "accepted" /\ cur.state = "executing"
            THEN [cur EXCEPT !.state = "canceling"]
            ELSE cur
  /\ UNCHANGED <<goal_handle, result_future, status, oldExec, oldCanceling>>

cancelTask(why) ==
  /\ lastCancel' = [why |-> why, leg |-> leg, sent |-> result_future,
                    was |-> HandleState]
  /\ cur' = IF result_future /\ goal_handle = "accepted" /\ cur.state = "executing"
            THEN [cur EXCEPT !.state = "canceling"]
            ELSE cur
  /\ UNCHANGED <<goal_handle, result_future, status, oldExec, oldCanceling>>

\* The loop "while not client.wait_for_server(timeout_sec=1.0)" of
\* followGpsWaypoints / spin is left only once the server is there; then
\* send_goal_async and what follows the answer.
send_goal_gives_up(kind, acc) ==
  /\ kind \notin servers
  /\ UNCHANGED navVars

send_goal(kind, acc) ==
  /\ kind \in servers
  /\ goal_handle' = IF acc THEN "accepted" ELSE "rejected"
  /\ IF acc
     THEN /\ cur.state = "canceling" => oldCanceling < MaxOld
          /\ result_future' = TRUE
          /\ cur' = [kind |-> kind, state |-> "executing"]
          /\ oldExec' = oldExec + (IF cur.state = "executing" THEN 1 ELSE 0)
          /\ oldCanceling' = oldCanceling + (IF cur.state = "canceling" THEN 1 ELSE 0)
     ELSE UNCHANGED <<result_future, cur, oldExec, oldCanceling>>
  /\ UNCHANGED status

\* The destination of the running gps_nav call.
dest_wp == CASE phase = "direct" -> wps[leg]
             [] phase = "hexnav" -> HexWp(leg, hexI)
             [] OTHER -> found_loc

followGpsWaypoints(acc) ==
  /\ send_goal("path", acc)
  /\ lastSubmit' = [kind |-> "path", phase |-> phase, leg |-> leg, dest |-> dest_wp]
  /\ lastCancel' = NoCancel

spin(acc) ==
  /\ send_goal("spin", acc)
  /\ lastSubmit' = [kind |-> "spin", phase |-> phase, leg |-> leg, dest |-> None]
  /\ lastCancel' = NoCancel

\* isTaskComplete: TRUE without a result future; else TRUE once the result is in,
\* which also sets self.status.
isTaskComplete(pcDone, pcBody) ==
  /\ IF ~result_future
     THEN /\ pc' = pcDone
          /\ UNCHANGED status
     ELSE IF cur.state \in Terminal
          THEN /\ pc' = pcDone
               /\ status' = cur.state
          ELSE /\ pc' = pcBody
               /\ UNCHANGED status
  /\ UNCHANGED <<legs, legIdx, leg, phase, hexI, found_loc, result, exc, failedAt>>
  /\ UNCHANGED <<goal_handle, result_future, cur, oldExec, oldCanceling>>

\* getResult
getResult == CASE status = "succeeded" -> "SUCCEEDED"
               [] status = "aborted" -> "FAILED"
               [] status = "canceled" -> "CANCELED"
               [] OTHER -> "UNKNOWN"


\* ------------------------------------------------------ the mission thread
\* action_server_callback up to the check of the leg list.
action_server_callback_any_list ==
  /\ pc = "idle"
  /\ \E ls \in LegLists : legs' = ls
  /\ result' = NoResult
  /\ pc' = "trig_auto"
  /\ leg' = "start"
  /\ found_poses' = [k \in Keys |-> None]
  /\ cancelReq' = FALSE
  /\ legIdx' = 0
  /\ phase' = "none"
  /\ hexI' = 0
  /\ found_loc' = None
  /\ exc' = "none"
  /\ failedAt' = 0
  /\ attempts' = 0
  /\ updates' = 0
  /\ modeCalls' = << >>
  /\ lastSubmit' = NoSubmit
  /\ lastCancel' = NoCancel
  /\ UNCHANGED <<navVars, filtered_gps, nav2Active, servers, cfgVars, cb, cbError, mode>>
  /\ UNCHANGED <<lockVars, serveVars>>

action_server_callback ==
  /\ pc = "idle"
  /\ \E ls \in LegLists :
       /\ legs' = ls
       /\ IF ls = << >>
          THEN /\ result' = [status |-> "aborted",
                             msg |-> "Well that was less-than-interstellar of you"]
               /\ pc' = "returned"
          ELSE /\ result' = NoResult
               /\ pc' = "trig_auto"
  /\ leg' = "start"
  /\ found_poses' = [k \in Keys |-> None]
  /\ cancelReq' = FALSE
  /\ legIdx' = 0
  /\ phase' = "none"
  /\ hexI' = 0
  /\ found_loc' = None
  /\ exc' = "none"
  /\ failedAt' = 0
  /\ attempts' = 0
  /\ updates' = 0
  /\ modeCalls' = << >>
  /\ lastSubmit' = NoSubmit
  /\ lastCancel' = NoCancel
  /\ UNCHANGED <<navVars, filtered_gps, nav2Active, servers, cfgVars, cb, cbError, mode>>
  /\ UNCHANGED <<lockVars, serveVars>>

\* "Trigger the autonomy state" of action_server_callback.
trigger_auto_skipped ==
  /\ pc = "trig_auto"
  /\ pc' = "wait_fix"
  /\ UNCHANGED <<legs, legIdx, leg, phase, hexI, found_loc, result, exc, failedAt>>
  /\ UNCHANGED <<navVars, envVars, cfgVars, cbVars, modeVars, logVars>>
  /\ UNCHANGED loopVars
  /\ UNCHANGED <<lockVars, serveVars>>

trigger_auto ==
  /\ pc = "trig_auto"
  /\ async_service_call("auto")
  /\ pc' = "wait_fix"
  /\ UNCHANGED <<legs, legIdx, leg, phase, hexI, found_loc, result, exc, failedAt>>
  /\ UNCHANGED <<navVars, envVars, cfgVars, cbVars, logVars>>
  /\ UNCHANGED loopVars
  /\ UNCHANGED <<lockVars, serveVars>>

\* exec_autonomy_task: the test of the loop that waits for a GPS fix.
wait_fix ==
  /\ pc = "wait_fix"
  /\ pc' = IF filtered_gps THEN "plan" ELSE "wait_fix_body"
  /\ UNCHANGED <<legs, legIdx, leg, phase, hexI, found_loc, result, exc, failedAt>>
  /\ UNCHANGED <<navVars, envVars, cfgVars, cbVars, modeVars, logVars>>
  /\ UNCHANGED loopVars
  /\ UNCHANGED <<lockVars, serveVars>>

\* exec_autonomy_task: the body of that loop.
wait_fix_body ==
  /\ pc = "wait_fix_body"
  /\ IF cancelReq
     THEN /\ cancelTask("client")
          /\ except_handler("Task execution canceled by action client")
     ELSE /\ pc' = "wait_fix"
          /\ UNCHANGED <<legs, legIdx, leg, phase, hexI, found_loc, result, exc, failedAt>>
          /\ UNCHANGED <<navVars, logVars, loopVars>>
  /\ UNCHANGED <<envVars, cfgVars, cbVars, modeVars>>
  /\ UNCHANGED <<lockVars, serveVars>>

\* exec_autonomy_task: the order planner.
plan_order ==
  /\ pc = "plan"
  /\ IF order_planner \in OrderPlanners
     THEN /\ \E p \in Perms(legs) : legs' = p
          /\ pc' = "wait_nav2"
          /\ UNCHANGED <<legIdx, leg, phase, hexI, found_loc, result, exc, failedAt>>
          /\ UNCHANGED lastSubmit
     ELSE /\ except_handler("Invalid order planner provided")
  /\ UNCHANGED <<navVars, envVars, cfgVars, cbVars, modeVars, lastCancel>>
  /\ UNCHANGED loopVars
  /\ UNCHANGED <<lockVars, serveVars>>

\* waitUntilNav2Active returns once bt_navigator is active.
waitUntilNav2Active ==
  /\ pc = "wait_nav2"
  /\ nav2Active
  /\ pc' = "for_leg"
  /\ UNCHANGED <<legs, legIdx, leg, phase, hexI, found_loc, result, exc, failedAt>>
  /\ UNCHANGED <<navVars, envVars, cfgVars, cbVars, modeVars, logVars>>
  /\ UNCHANGED loopVars
  /\ UNCHANGED <<lockVars, serveVars>>

\* The for loop of exec_autonomy_task and exec_leg up to its first gps_nav.
exec_leg_ends_early ==
  /\ pc = "for_leg"
  /\ IF legIdx < Len(legs) /\ legIdx < 1
     THEN /\ legIdx' = legIdx + 1
          /\ leg' = legs[legIdx + 1]
          /\ IF IsValidLeg(legs[legIdx + 1]) /\ legs[legIdx + 1] \in DOMAIN wps
             THEN /\ pc' = "nav_start"
                  /\ phase' = "direct"
             ELSE /\ pc' = "for_leg"
                  /\ phase' = "none"
     ELSE /\ pc' = "task_end"
          /\ UNCHANGED <<legIdx, leg, phase>>
  /\ found_loc' = None
  /\ attempts' = 0
  /\ updates' = 0
  /\ UNCHANGED <<legs, hexI, result, exc, failedAt>>
  /\ UNCHANGED <<navVars, envVars, cfgVars, cbVars, modeVars, logVars>>
  /\ UNCHANGED <<lockVars, serveVars>>

exec_leg_arrives_anyway ==
  /\ pc = "for_leg"
  /\ IF legIdx < Len(legs)
     THEN /\ legIdx' = legIdx + 1
          /\ leg' = legs[legIdx + 1]
          /\ IF IsValidLeg(legs[legIdx + 1]) /\ legs[legIdx + 1] \in DOMAIN wps
             THEN /\ pc' = "nav_start"
                  /\ phase' = "direct"
             ELSE /\ pc' = "trig_arrival"
                  /\ phase' = "none"
     ELSE /\ pc' = "task_end"
          /\ UNCHANGED <<legIdx, leg, phase>>
  /\ found_loc' = None
  /\ attempts' = 0
  /\ updates' = 0
  /\ UNCHANGED <<legs, hexI, result, exc, failedAt>>
  /\ UNCHANGED <<navVars, envVars, cfgVars, cbVars, modeVars, logVars>>
  /\ UNCHANGED <<lockVars, serveVars>>

exec_leg ==
  /\ pc = "for_leg"
  /\ IF legIdx < Len(legs)
     THEN /\ legIdx' = legIdx + 1
          /\ leg' = legs[legIdx + 1]
          /\ IF IsValidLeg(legs[legIdx + 1]) /\ legs[legIdx + 1] \in DOMAIN wps
             THEN /\ pc' = "nav_start"
                  /\ phase' = "direct"
             ELSE /\ pc' = "for_leg"
                  /\ phase' = "none"
     ELSE /\ pc' = "task_end"
          /\ UNCHANGED <<legIdx, leg, phase>>
  /\ found_loc' = None
  /\ attempts' = 0
  /\ updates' = 0
  /\ UNCHANGED <<legs, hexI, result, exc, failedAt>>
  /\ UNCHANGED <<navVars, envVars, cfgVars, cbVars, modeVars, logVars>>
  /\ UNCHANGED <<lockVars, serveVars>>

\* The end of exec_autonomy_task and succeed() in action_server_callback.
task_end_twice ==
  /\ pc = "task_end"
  /\ leg' = "end"
  /\ result' = [status |-> "succeeded", msg |-> "One small step for a rover"]
  /\ async_service_call("teleop")
  /\ pc' = "trig_teleop"
  /\ UNCHANGED <<legs, legIdx, phase, hexI, found_loc, exc, failedAt>>
  /\ UNCHANGED <<navVars, envVars, cfgVars, cbVars, logVars>>
  /\ UNCHANGED loopVars
  /\ UNCHANGED <<lockVars, serveVars>>

task_end ==
  /\ pc = "task_end"
  /\ leg' = "end"
  /\ result' = [status |-> "succeeded", msg |-> "One small step for a rover"]
  /\ pc' = "trig_teleop"
  /\ UNCHANGED <<legs, legIdx, phase, hexI, found_loc, exc, failedAt>>
  /\ UNCHANGED <<navVars, envVars, cfgVars, cbVars, modeVars, logVars>>
  /\ UNCHANGED loopVars
  /\ UNCHANGED <<lockVars, serveVars>>

\* "Trigger the teleop state" and the return of action_server_callback.
trigger_teleop ==
  /\ pc = "trig_teleop"
  /\ async_service_call("teleop")
  /\ pc' = "returned"
  /\ UNCHANGED <<legs, legIdx, leg, phase, hexI, found_loc, result, exc, failedAt>>
  /\ UNCHANGED <<navVars, envVars, cfgVars, cbVars, logVars>>
  /\ UNCHANGED loopVars
  /\ UNCHANGED <<lockVars, serveVars>>


\* ------------------------------------------------ exec_leg after its callees
\* The convergence loop of exec_leg starts (or restarts) gps_nav toward v.
converge(v) == Goto("nav_start", "converge", 0, v)

\* exec_leg once the leg has succeeded: on to "Trigger the arrival state".
leg_success == Goto("trig_arrival", "none", 0, None)

\* exec_leg: "Could not find the ..." and return.
leg_not_found_raises ==
  /\ failedAt' = legIdx
  /\ pc' = "trig_teleop"
  /\ result' = [status |-> "aborted", msg |-> "It was the aliens"]
  /\ exc' = "Could not find"
  /\ phase' = "none"
  /\ hexI' = 0
  /\ found_loc' = None
  /\ lastSubmit' = NoSubmit
  /\ attempts' = 0
  /\ updates' = 0
  /\ UNCHANGED <<legs, legIdx, leg>>

leg_not_found ==
  /\ failedAt' = legIdx
  /\ pc' = "for_leg"
  /\ phase' = "none"
  /\ hexI' = 0
  /\ found_loc' = None
  /\ lastSubmit' = NoSubmit
  /\ attempts' = 0
  /\ updates' = 0
  /\ UNCHANGED <<legs, legIdx, leg, result, exc>>

\* exec_leg after gps_nav(leg_wp) returned v.
exec_leg_after_nav_any_leg(v) ==
  IF v # None THEN converge(v) ELSE Goto("spin_send", "spin", 0, None)

exec_leg_after_nav_searches(v) ==
  IF leg \in aruco_legs \/ leg \in obj_legs
  THEN Goto("spin_send", "spin", 0, None)
  ELSE leg_success

exec_leg_after_nav(v) ==
  IF leg \in aruco_legs \/ leg \in obj_legs
  THEN IF v # None THEN converge(v) ELSE Goto("spin_send", "spin", 0, None)
  ELSE leg_success

\* exec_leg after spin_search() returned v: hex_search starts at its first vertex.
exec_leg_after_spin_sweeps(v) == Goto("nav_start", "hexnav", 1, None)

exec_leg_after_spin(v) ==
  IF v # None THEN converge(v) ELSE Goto("nav_start", "hexnav", 1, None)

\* hex_search after gps_nav(hex_wp) returned v.
hex_search_after_nav_goes_on(v) ==
  Goto("spin_send", "hexspin", hexI, None)

hex_search_after_nav(v) ==
  IF v # None THEN converge(v) ELSE Goto("spin_send", "hexspin", hexI, None)

\* hex_search after spin_search returned v at vertex hexI.
hex_search_after_spin(v) ==
  IF v # None THEN converge(v)
  ELSE IF hexI < Len(hex_coord) THEN Goto("nav_start", "hexnav", hexI + 1, None)
  ELSE leg_not_found

\* The while loop of exec_leg after gps_nav(found_loc, updating=True) returned v.
converge_after_nav_again(v) == converge(found_loc)

converge_after_nav(v) ==
  IF v # None THEN converge(v) ELSE leg_success

\* The return of gps_nav or spin_search with value v to its caller.
Return(v) ==
  CASE phase = "direct" -> exec_leg_after_nav(v)
    [] phase = "spin" -> exec_leg_after_spin(v)
    [] phase = "hexnav" -> hex_search_after_nav(v)
    [] phase = "hexspin" -> hex_search_after_spin(v)
    [] OTHER -> converge_after_nav(v)

\* ------------------------------------------------------------------ gps_nav
\* gps_nav up to followGpsWaypoints: the path planner, then the goal is sent.
gps_nav_start_any_planner ==
  /\ pc = "nav_start"
  /\ \E acc \in BOOLEAN : followGpsWaypoints(acc)
  /\ pc' = "nav_poll"
  /\ UNCHANGED <<legs, legIdx, leg, phase, hexI, found_loc, result, exc, failedAt>>
  /\ UNCHANGED <<envVars, cfgVars, cbVars, modeVars>>
  /\ UNCHANGED loopVars
  /\ UNCHANGED <<lockVars, serveVars>>

gps_nav_start_checks_first ==
  /\ pc = "nav_start"
  /\ IF phase = "hexnav" /\ found_check # None
     THEN /\ Return(found_check)
          /\ UNCHANGED <<navVars, lastCancel>>
     ELSE /\ \E acc \in BOOLEAN : followGpsWaypoints(acc)
          /\ pc' = "nav_poll"
          /\ UNCHANGED <<legs, legIdx, leg, phase, hexI, found_loc, result, exc, failedAt>>
          /\ UNCHANGED loopVars
  /\ UNCHANGED <<envVars, cfgVars, cbVars, modeVars>>
  /\ UNCHANGED <<lockVars, serveVars>>

gps_nav_start ==
  /\ pc = "nav_start"
  /\ IF path_planner \in PathPlanners
     THEN /\ \E acc \in BOOLEAN : followGpsWaypoints(acc)
          /\ pc' = "nav_poll"
          /\ UNCHANGED <<legs, legIdx, leg, phase, hexI, found_loc, result, exc, failedAt>>
     ELSE /\ except_handler("Invalid path planner provided")
          /\ UNCHANGED <<navVars, lastCancel>>
  /\ UNCHANGED <<envVars, cfgVars, cbVars, modeVars>>
  /\ UNCHANGED loopVars
  /\ UNCHANGED <<lockVars, serveVars>>

\* gps_nav: the test of its polling loop.
gps_nav_poll ==
  /\ pc = "nav_poll"
  /\ isTaskComplete("nav_result", "nav_body")
  /\ UNCHANGED <<envVars, cfgVars, cbVars, modeVars, logVars>>
  /\ UNCHANGED loopVars
  /\ UNCHANGED <<lockVars, serveVars>>

\* gps_nav: the body of its polling loop.
gps_nav_body ==
  /\ pc = "nav_body"
  /\ IF cancelReq
     THEN /\ cancelTask("client")
          /\ except_handler("Task execution canceled by action client")
     ELSE IF phase = "converge"
     THEN IF found_check = None
          THEN /\ except_handler("AttributeError")
               /\ UNCHANGED <<navVars, lastCancel>>
          ELSE IF Material(found_check, found_loc)
          THEN /\ cancelTask("update")
               /\ Return(found_check)
          ELSE /\ pc' = "nav_poll"
               /\ UNCHANGED <<legs, legIdx, leg, phase, hexI, found_loc, result, exc, failedAt>>
               /\ UNCHANGED <<navVars, logVars, loopVars>>
     ELSE IF found_check # None
          THEN /\ cancelTask("detection")
               /\ Return(found_check)
          ELSE /\ pc' = "nav_poll"
               /\ UNCHANGED <<legs, legIdx, leg, phase, hexI, found_loc, result, exc, failedAt>>
               /\ UNCHANGED <<navVars, logVars, loopVars>>
  /\ UNCHANGED <<envVars, cfgVars, cbVars, modeVars>>
  /\ UNCHANGED <<lockVars, serveVars>>

\* gps_nav after its loop: getResult is logged and False returned.
gps_nav_result ==
  /\ pc = "nav_result"
  /\ Return(None)
  /\ status' = "none"
  /\ UNCHANGED <<goal_handle, result_future, cur, oldExec, oldCanceling>>
  /\ UNCHANGED <<envVars, cfgVars, cbVars, modeVars, lastCancel>>
  /\ UNCHANGED <<lockVars, serveVars>>

\* -------------------------------------------------------------- spin_search
spin_search_start ==
  /\ pc = "spin_send"
  /\ \E acc \in BOOLEAN : spin(acc)
  /\ pc' = "spin_poll"
  /\ UNCHANGED <<legs, legIdx, leg, phase, hexI, found_loc, result, exc, failedAt>>
  /\ UNCHANGED <<envVars, cfgVars, cbVars, modeVars>>
  /\ UNCHANGED loopVars
  /\ UNCHANGED <<lockVars, serveVars>>

spin_search_poll ==
  /\ pc = "spin_poll"
  /\ isTaskComplete("spin_result", "spin_body")
  /\ UNCHANGED <<envVars, cfgVars, cbVars, modeVars, logVars>>
  /\ UNCHANGED loopVars
  /\ UNCHANGED <<lockVars, serveVars>>

spin_search_body_goes_on ==
  /\ pc = "spin_body"
  /\ IF cancelReq
     THEN /\ cancelTask("client")
          /\ Return(None)
     ELSE IF found_check # None
          THEN /\ cancelTask("detection")
               /\ Return(found_check)
          ELSE /\ pc' = "spin_poll"
               /\ UNCHANGED <<legs, legIdx, leg, phase, hexI, found_loc, result, exc, failedAt>>
               /\ UNCHANGED <<navVars, logVars, loopVars>>
  /\ UNCHANGED <<envVars, cfgVars, cbVars, modeVars>>
  /\ UNCHANGED <<lockVars, serveVars>>

spin_search_body ==
  /\ pc = "spin_body"
  /\ IF cancelReq
     THEN /\ cancelTask("client")
          /\ except_handler("Task execution canceled by action client")
     ELSE IF found_check # None
          THEN /\ cancelTask("detection")
               /\ Return(found_check)
          ELSE /\ pc' = "spin_poll"
               /\ UNCHANGED <<legs, legIdx, leg, phase, hexI, found_loc, result, exc, failedAt>>
               /\ UNCHANGED <<navVars, logVars, loopVars>>
  /\ UNCHANGED <<envVars, cfgVars, cbVars, modeVars>>
  /\ UNCHANGED <<lockVars, serveVars>>

\* spin_search after its loop: getResult is logged and False returned.
spin_search_result ==
  /\ pc = "spin_result"
  /\ Return(None)
  /\ status' = "none"
  /\ UNCHANGED <<goal_handle, result_future, cur, oldExec, oldCanceling>>
  /\ UNCHANGED <<envVars, cfgVars, cbVars, modeVars, lastCancel>>
  /\ UNCHANGED <<lockVars, serveVars>>

\* ------------------------------------------------- exec_leg: the arrival
\* "Trigger the arrival state"; the thread then sleeps wait_time.
trigger_arrival ==
  /\ pc = "trig_arrival"
  /\ async_service_call("arrival")
  /\ pc' = "dwell"
  /\ UNCHANGED <<legs, legIdx, leg, phase, hexI, found_loc, result, exc, failedAt>>
  /\ UNCHANGED <<navVars, envVars, cfgVars, cbVars, logVars>>
  /\ UNCHANGED loopVars
  /\ UNCHANGED <<lockVars, serveVars>>

\* After the sleep, "Trigger the autonomy state" and return to the for loop.
exec_leg_auto_skipped ==
  /\ pc = "dwell"
  /\ pc' = "for_leg"
  /\ UNCHANGED <<legs, legIdx, leg, phase, hexI, found_loc, result, exc, failedAt>>
  /\ UNCHANGED <<navVars, envVars, cfgVars, cbVars, modeVars, logVars>>
  /\ UNCHANGED loopVars
  /\ UNCHANGED <<lockVars, serveVars>>

exec_leg_auto ==
  /\ pc = "dwell"
  /\ async_service_call("auto")
  /\ pc' = "for_leg"
  /\ UNCHANGED <<legs, legIdx, leg, phase, hexI, found_loc, result, exc, failedAt>>
  /\ UNCHANGED <<navVars, envVars, cfgVars, cbVars, logVars>>
  /\ UNCHANGED loopVars
  /\ UNCHANGED <<lockVars, serveVars>>


\* ---------------------------------------------------------- the surroundings
\* cancel_callback: the action client asks to cancel the running request.
cancel_callback ==
  /\ pc # "idle"
  /\ result.status = "none"
  /\ ~cancelReq
  /\ cancelReq' = TRUE
  /\ UNCHANGED <<ctlVars, navVars, filtered_gps, nav2Active, servers, cfgVars,
                 cbVars, modeVars, logVars>>
  /\ UNCHANGED loopVars
  /\ UNCHANGED <<lockVars, serveVars>>

\* gps_callback: the first GPS fix.
gps_callback ==
  /\ ~filtered_gps
  /\ filtered_gps' = TRUE
  /\ UNCHANGED <<ctlVars, navVars, cancelReq, nav2Active, servers, cfgVars,
                 cbVars, modeVars, logVars>>
  /\ UNCHANGED loopVars
  /\ UNCHANGED <<lockVars, serveVars>>

\* The get_state service of bt_navigator starts to answer "active".
Nav2Activates ==
  /\ ~nav2Active
  /\ nav2Active' = TRUE
  /\ UNCHANGED <<ctlVars, navVars, cancelReq, filtered_gps, servers, cfgVars,
                 cbVars, modeVars, logVars>>
  /\ UNCHANGED loopVars
  /\ UNCHANGED <<lockVars, serveVars>>

\* An action server of Nav2 (follow_gps_waypoints, spin) comes up.
ServerStarts ==
  /\ \E k \in {"path", "spin"} \ servers : servers' = servers \cup {k}
  /\ UNCHANGED <<ctlVars, navVars, cancelReq, filtered_gps, nav2Active, cfgVars,
                 cbVars, modeVars, logVars>>
  /\ UNCHANGED loopVars
  /\ UNCHANGED <<lockVars, serveVars>>

\* The action server ends the goal of self.result_future.
GoalEnds ==
  /\ cur.state \in {"executing", "canceling"}
  /\ \E s \in Terminal : cur' = [cur EXCEPT !.state = s]
  /\ UNCHANGED <<goal_handle, result_future, status, oldExec, oldCanceling>>
  /\ UNCHANGED <<ctlVars, envVars, cfgVars, cbVars, modeVars, logVars>>
  /\ UNCHANGED loopVars
  /\ UNCHANGED <<lockVars, serveVars>>

\* The action server ends a canceled goal of an earlier submission.
OldGoalEnds ==
  /\ oldCanceling > 0
  /\ oldCanceling' = oldCanceling - 1
  /\ UNCHANGED <<goal_handle, result_future, cur, status, oldExec>>
  /\ UNCHANGED <<ctlVars, envVars, cfgVars, cbVars, modeVars, logVars>>
  /\ UNCHANGED loopVars
  /\ UNCHANGED <<lockVars, serveVars>>

\* Storing p changes the tracked pose of the current leg to one that the running
\* convergence loop will take for a significantly changed location.
MaterialUpdate(p) ==
  /\ phase = "converge"
  /\ p # None
  /\ p # found_poses[leg]
  /\ Material(p, found_loc)

\* Of the identifiers used here one contains another only if they are equal.
Contains(l, label) == label = l

CbIdle == [pc |-> "idle", label |-> "none"]

\* aruco_callback: the test "self.leg in self.aruco_legs".
aruco_callback ==
  /\ cb.pc = "idle"
  /\ leg \in aruco_legs
  /\ cb' = [pc |-> "a_loop", label |-> "none"]
  /\ UNCHANGED <<found_poses, cbError>>
  /\ UNCHANGED <<ctlVars, navVars, envVars, cfgVars, modeVars, logVars>>
  /\ UNCHANGED loopVars
  /\ UNCHANGED <<lockVars, serveVars>>

\* aruco_callback: "marker.marker_id == self.tags[self.leg]" for one marker.
aruco_callback_match ==
  /\ cb.pc = "a_loop"
  /\ \E id \in MarkerIds :
       IF leg \notin DOMAIN tags
       THEN /\ cbError' = TRUE
            /\ cb' = CbIdle
       ELSE /\ cb' = IF id = tags[leg] THEN [pc |-> "a_conv", label |-> leg] ELSE CbIdle
            /\ UNCHANGED cbError
  /\ UNCHANGED found_poses
  /\ UNCHANGED <<ctlVars, navVars, envVars, cfgVars, modeVars, logVars>>
  /\ UNCHANGED loopVars
  /\ UNCHANGED <<lockVars, serveVars>>

\* The end of both callbacks: pose_to_geopose, then "self.found_poses[self.leg] = pose"
\* if the conversion gave a pose.
callback_store ==
  /\ cb.pc \in {"a_conv", "o_conv"}
  /\ \E p \in DetPoses(cb.label) \cup {None} :
       /\ found_poses' = IF p = None THEN found_poses ELSE [found_poses EXCEPT ![leg] = p]
       /\ IF MaterialUpdate(p)
          THEN updates < MaxUpdates /\ updates' = updates + 1
          ELSE UNCHANGED updates
  /\ cb' = CbIdle
  /\ UNCHANGED <<cbError, attempts>>
  /\ UNCHANGED <<ctlVars, navVars, envVars, cfgVars, modeVars, logVars>>
  /\ UNCHANGED <<lockVars, serveVars>>

\* obj_callback: the test "self.leg in self.obj_legs".
obj_callback ==
  /\ cb.pc = "idle"
  /\ leg \in obj_legs
  /\ cb' = [pc |-> "o_loop", label |-> "none"]
  /\ UNCHANGED <<found_poses, cbError>>
  /\ UNCHANGED <<ctlVars, navVars, envVars, cfgVars, modeVars, logVars>>
  /\ UNCHANGED loopVars
  /\ UNCHANGED <<lockVars, serveVars>>

\* obj_callback: "obj.label in self.leg" for one object.
obj_callback_match ==
  /\ cb.pc = "o_loop"
  /\ \E label \in ObjLabels :
       cb' = IF Contains(leg, label) THEN [pc |-> "o_conv", label |-> leg] ELSE CbIdle
  /\ UNCHANGED <<found_poses, cbError>>
  /\ UNCHANGED <<ctlVars, navVars, envVars, cfgVars, modeVars, logVars>>
  /\ UNCHANGED loopVars
  /\ UNCHANGED <<lockVars, serveVars>>

\* -------------------------------------------------------------------- Next
Next ==
  \/ action_server_callback
  \/ trigger_auto
  \/ wait_fix
  \/ wait_fix_body
  \/ plan_order
  \/ waitUntilNav2Active
  \/ exec_leg
  \/ task_end
  \/ trigger_teleop
  \/ gps_nav_start
  \/ gps_nav_poll
  \/ gps_nav_body
  \/ gps_nav_result
  \/ spin_search_start
  \/ spin_search_poll
  \/ spin_search_body
  \/ spin_search_result
  \/ trigger_arrival
  \/ exec_leg_auto
  \/ cancel_callback
  \/ gps_callback
  \/ Nav2Activates
  \/ ServerStarts
  \/ GoalEnds
  \/ OldGoalEnds
  \/ aruco_callback
  \/ aruco_callback_match
  \/ callback_store
  \/ obj_callback
  \/ obj_callback_match

Spec == Init /\ [][Next]_vars

\* The steps of the mission thread (the thread of action_server_callback).
MissionThread ==
  \/ action_server_callback
  \/ trigger_auto
  \/ wait_fix
  \/ wait_fix_body
  \/ plan_order
  \/ waitUntilNav2Active
  \/ exec_leg
  \/ task_end
  \/ trigger_teleop
  \/ gps_nav_start
  \/ gps_nav_poll
  \/ gps_nav_body
  \/ gps_nav_result
  \/ spin_search_start
  \/ spin_search_poll
  \/ spin_search_body
  \/ spin_search_result
  \/ trigger_arrival
  \/ exec_leg_auto

\* --------------------------------------------------- PatchRclpyIssue1123
\* A control flow enters an operation of a client: send_goal_async,
\* _cancel_goal_async, _get_result_async from the mission thread, execute from
\* the executor. The property _cpp_client_handle_lock tests "self._lock is None".
ClientCall(f) ==
  /\ flow[f].pc = "idle"
  /\ \E c \in Clients :
       \E op \in IF f = "mission"
                  THEN {"send_goal_async", "_cancel_goal_async", "_get_result_async"}
                  ELSE {"execute"} :
         flow' = [flow EXCEPT ![f] = [pc |-> IF lock[c] = "None" THEN "create" ELSE "fetch",
                                      client |-> c, op |-> op, ref |-> "None"]]
  /\ UNCHANGED <<lock, owner, missionVars, serveVars>>

\* "self._lock = RLock()"
LockCreate_once(f) ==
  /\ flow[f].pc = "create"
  /\ lock' = IF lock[flow[f].client] = "None"
             THEN [lock EXCEPT ![flow[f].client] = f]
             ELSE lock
  /\ flow' = [flow EXCEPT ![f].pc = "fetch"]
  /\ UNCHANGED <<owner, missionVars, serveVars>>

LockCreate(f) ==
  /\ flow[f].pc = "create"
  /\ lock' = [lock EXCEPT ![flow[f].client] = f]
  /\ flow' = [flow EXCEPT ![f].pc = "fetch"]
  /\ UNCHANGED <<owner, missionVars, serveVars>>

\* "return self._lock"
LockFetch(f) ==
  /\ flow[f].pc = "fetch"
  /\ flow' = [flow EXCEPT ![f].pc = "acquire", ![f].ref = lock[flow[f].client]]
  /\ UNCHANGED <<lock, owner, missionVars, serveVars>>

\* "with self._cpp_client_handle_lock:" acquires the RLock it was given.
LockAcquire_none(f) ==
  /\ flow[f].pc = "acquire"
  /\ flow' = [flow EXCEPT ![f].pc = "inside"]
  /\ UNCHANGED <<lock, owner, missionVars, serveVars>>

LockAcquire(f) ==
  /\ flow[f].pc = "acquire"
  /\ owner[flow[f].client][flow[f].ref] \in {"free", f}
  /\ owner' = [owner EXCEPT ![flow[f].client][flow[f].ref] = f]
  /\ flow' = [flow EXCEPT ![f].pc = "inside"]
  /\ UNCHANGED <<lock, missionVars, serveVars>>

\* The call of the base class returns and the with block ends. The mission thread
\* then awaits the future it was given; execute has nothing more to do.
LockRelease(f) ==
  /\ flow[f].pc = "inside"
  /\ owner' = [owner EXCEPT ![flow[f].client][flow[f].ref] = "free"]
  /\ flow' = [flow EXCEPT ![f].pc = IF f = "mission" THEN "await" ELSE "idle"]
  /\ UNCHANGED <<lock, missionVars, serveVars>>

\* "await future": the answer of the server has come.
FutureDone(f) ==
  /\ flow[f].pc = "await"
  /\ flow' = [flow EXCEPT ![f] = FlowIdle]
  /\ UNCHANGED <<lock, owner, missionVars, serveVars>>

NextLock ==
  \/ \E f \in Flows : ClientCall(f)
  \/ \E f \in Flows : LockCreate(f)
  \/ \E f \in Flows : LockFetch(f)
  \/ \E f \in Flows : LockAcquire(f)
  \/ \E f \in Flows : LockRelease(f)
  \/ \E f \in Flows : FutureDone(f)

SpecLock == Init /\ [][NextLock]_vars

\* ------------------------------------------- the RunTask action server
\* The action server is built with no goal_callback and no
\* handle_accepted_callback: every request is accepted and its execute callback
\* is handed to the executor at once.
handle_accepted(r) ==
  /\ serve[r].pc = "none"
  /\ \E ls \in LegLists : serve' = [serve EXCEPT ![r] = [pc |-> "accepted", legs |-> ls]]
  /\ UNCHANGED <<task_goal_handle, missionVars, lockVars>>

\* action_server_callback up to "Get the task legs from the goal". The callback
\* group of the action server is reentrant and the executor multi-threaded, so a
\* thread starts the callback whatever the other callbacks are doing.
action_server_callback_waits(r) ==
  /\ serve[r].pc = "accepted"
  /\ \A q \in Requests : serve[q].pc \notin {"started", "running"}
  /\ task_goal_handle' = r
  /\ legs' = << >>
  /\ leg' = "start"
  /\ found_poses' = [k \in Keys |-> None]
  /\ serve' = [serve EXCEPT ![r].pc = "started"]
  /\ UNCHANGED <<pc, legIdx, phase, hexI, found_loc, result, exc, failedAt, cb, cbError>>
  /\ UNCHANGED <<navVars, envVars, cfgVars, modeVars, logVars, loopVars, lockVars>>

action_server_callback_starts(r) ==
  /\ serve[r].pc = "accepted"
  /\ task_goal_handle' = r
  /\ legs' = << >>
  /\ leg' = "start"
  /\ found_poses' = [k \in Keys |-> None]
  /\ serve' = [serve EXCEPT ![r].pc = "started"]
  /\ UNCHANGED <<pc, legIdx, phase, hexI, found_loc, result, exc, failedAt, cb, cbError>>
  /\ UNCHANGED <<navVars, envVars, cfgVars, modeVars, logVars, loopVars, lockVars>>

\* "self.legs = goal_handle.request.legs" and the test for an empty list.
action_server_callback_legs(r) ==
  /\ serve[r].pc = "started"
  /\ legs' = serve[r].legs
  /\ serve' = [serve EXCEPT ![r].pc = IF serve[r].legs = << >> THEN "returned"
                                      ELSE "running"]
  /\ UNCHANGED <<pc, legIdx, leg, phase, hexI, found_loc, result, exc, failedAt>>
  /\ UNCHANGED <<task_goal_handle, navVars, envVars, cfgVars, cbVars, modeVars>>
  /\ UNCHANGED <<logVars, loopVars, lockVars>>

\* The rest of action_server_callback has run and the callback returns: the order
\* planner has put an order of self.legs into self.legs, and self.leg is "end".
action_server_callback_returns(r) ==
  /\ serve[r].pc = "running"
  /\ serve' = [serve EXCEPT ![r].pc = "returned"]
  /\ \E p \in Perms(legs) : legs' = p
  /\ leg' = "end"
  /\ UNCHANGED <<pc, legIdx, phase, hexI, found_loc, result, exc, failedAt>>
  /\ UNCHANGED <<task_goal_handle, navVars, envVars, cfgVars, cbVars, modeVars>>
  /\ UNCHANGED <<logVars, loopVars, lockVars>>

NextServe ==
  \/ \E r \in Requests : handle_accepted(r)
  \/ \E r \in Requests : action_server_callback_starts(r)
  \/ \E r \in Requests : action_server_callback_legs(r)
  \/ \E r \in Requests : action_server_callback_returns(r)

SpecServe == Init /\ [][NextServe]_vars

\* The executor keeps running the mission thread; nothing is assumed of the
\* action servers, of the client or of the perception topics.
SpecFair == Spec /\ WF_vars(MissionThread)


\* ------------------------------------------------------ notions of the claims
\* How often mode m was switched to in the current request.
CountMode(m) == Cardinality({k \in 1..Len(modeCalls) : modeCalls[k].m = m})

LastMode == IF modeCalls = << >> THEN "none" ELSE modeCalls[Len(modeCalls)].m

\* action_server_callback has returned its result.
MissionEnded == pc = "returned"

CanceledByClient == exc = "Task execution canceled by action client"

\* -------------------------------------------------------------------- C1
\* C1, as stated: on every exit path of action_server_callback, the rejection of an
\* empty leg list included, teleop is switched to exactly once, as the last
\* mode switch of the request.
C1_TeleopOnEveryExit ==
  MissionEnded => (CountMode("teleop") = 1 /\ LastMode = "teleop")

\* C1, amended: a request with legs switches to teleop exactly once on every exit
\* path (success, error, cancellation), as its last mode switch; a request rejected
\* for its empty leg list switches no mode at all.
C1_TeleopOnceUnlessRejected ==
  MissionEnded =>
    IF legs = << >>
    THEN modeCalls = << >>
    ELSE CountMode("teleop") = 1 /\ LastMode = "teleop"

C1_Witness ==
  /\ MissionEnded
  /\ CanceledByClient
  /\ CountMode("arrival") = 1
  /\ LastMode = "teleop"

\* -------------------------------------------------------------------- C2
\* C2: once action_server_callback has returned, the most recent mode switch is
\* not the autonomous one: if the request switched to autonomous at all, its last
\* mode switch is teleop.
C2_NotAutonomousAtEnd ==
  MissionEnded =>
    /\ mode # "auto"
    /\ CountMode("auto") > 0 => mode = "teleop"

C2_Witness ==
  /\ MissionEnded
  /\ exc = "Invalid path planner provided"
  /\ CountMode("auto") = 1
  /\ mode = "teleop"

\* -------------------------------------------------------------------- C3
\* C3, as stated: a request whose cancellation was asked for while it ran never
\* ends as succeeded: it ends aborted.
C3_CancelNeverCompletes ==
  (MissionEnded /\ cancelReq) => result.status = "aborted"

C5_ArrivalOnlyAfterSucceeded ==
  (pc = "trig_arrival" /\ leg \in gps_legs) =>
    (goal_handle = "accepted" /\ cur.state = "succeeded")

\* -------------------------------------------------------------------- C6
\* C6, as stated: a goal the server declined is never treated as a completed
\* navigation or search step: gps_nav and spin_search leave their polling loop
\* normally only for an accepted goal.
C6_RejectedNeverCompleted ==
  pc \in {"nav_result", "spin_result"} => goal_handle = "accepted"

\* -------------------------------------------------------------------- C7
\* C7, as stated: a request ended by the client's cancellation is not reported
\* with the terminal status of an internal error (aborted).
C7_CancelNotReportedAsAbort ==
  (MissionEnded /\ CanceledByClient) => result.status # "aborted"

\* -------------------------------------------------------------------- C8
\* C8: while the current leg is a Waypoint leg the only goal sent is the direct
\* path-follow goal (no spin goal, no hex-sweep goal), and no goal of a Waypoint
\* leg is canceled because of a detection.
C8_NoSearchOnWaypointLeg ==
  /\ lastSubmit.leg \in gps_legs =>
       (lastSubmit.kind = "path" /\ lastSubmit.phase = "direct")
  /\ lastCancel.why \in {"detection", "update"} => lastCancel.leg \notin gps_legs

C8_Witness ==
  /\ pc = "nav_body"
  /\ leg = "gps1"
  /\ lastSubmit.kind = "path"
  /\ found_poses["gps1"] # None

\* -------------------------------------------------------------------- C9
\* C9: no leg becomes current and no goal is sent before the autonomous switch:
\* it is the first mode switch of the request, made before the first leg.
C9_AutoBeforeFirstLeg ==
  (leg \in LegIds \/ legIdx > 0 \/ goal_handle # "none") =>
    (modeCalls # << >> /\ modeCalls[1] = [m |-> "auto", i |-> 0])

C9_Witness ==
  /\ pc = "nav_poll"
  /\ legIdx = 1
  /\ goal_handle = "accepted"
  /\ Len(modeCalls) = 1

\* -------------------------------------------------------------------- C10
\* C10: when a goal is sent, no goal sent before it is still executing without a
\* cancel request: each earlier goal has ended or was canceled first.
C10_OneActiveGoal ==
  /\ oldExec = 0
  /\ lastSubmit # NoSubmit /\ cur.state = "executing" => goal_handle = "accepted"

C10_Witness ==
  /\ oldCanceling = 1
  /\ cur.state = "executing"
  /\ phase = "converge"


\* -------------------------------------------------------------------- C11
\* C11: the step of a polling loop that observes the cancellation while the goal
\* of self.goal_handle is executing sends one cancel request to that goal and
\* raises; from then on no cancelTask call and no goal submission follows, and the
\* request returns with exactly one teleop switch.
C11_CancelObserved ==
  [][ /\ (lastCancel'.why = "client" /\ lastCancel' # lastCancel) =>
           /\ CanceledByClient'
           /\ pc' = "trig_teleop"
           /\ HandleState = "executing" =>
                (lastCancel'.sent /\ HandleState' = "canceling")
      /\ CanceledByClient =>
           /\ lastCancel' = lastCancel
           /\ UNCHANGED <<goal_handle, result_future, oldExec>>
           /\ cur'.kind = cur.kind
           /\ lastSubmit' = NoSubmit
           /\ MissionEnded' => (CountMode("teleop"))' = 1
    ]_vars

C11_Witness ==
  /\ MissionEnded
  /\ CanceledByClient
  /\ phase = "spin"
  /\ lastCancel = [why |-> "client", leg |-> "aruco1", sent |-> TRUE, was |-> "executing"]
  /\ CountMode("teleop") = 1

\* -------------------------------------------------------------------- C12
\* C12, as stated: a cancelTask call made while the goal of self.goal_handle is
\* already terminal (succeeded, aborted, canceled, rejected) or already canceled
\* sends no cancel request.
C12_NoCancelSentToTerminalGoal ==
  lastCancel.was \in Terminal \cup {"rejected", "canceling"} => ~lastCancel.sent

\* C12, amended: cancelTask sends a cancel request exactly when a result future
\* is set, whatever the state of the goal of self.goal_handle; it sends none only
\* before the first accepted goal. A request sent for a goal that is terminal
\* or rejected changes no goal, and no goal handle gets two cancel requests
\* while it is executing or canceling.
C12_CancelSentIffResultFuture ==
  /\ [][lastCancel' # lastCancel /\ lastCancel' # NoCancel =>
          /\ lastCancel'.sent = result_future
          /\ lastCancel'.was # "executing" => cur' = cur
          /\ lastCancel'.was # "canceling"]_vars

C12_Witness ==
  /\ lastCancel.why = "update"
  /\ lastCancel.was = "rejected"
  /\ lastCancel.sent
  /\ cur.state = "canceling"


\* -------------------------------------------------------------------- C13
\* C13, as stated: followGpsWaypoints and spin do not wait forever for their
\* action server: a mission thread that has reached the submission of a goal
\* gets past it, with the goal sent or with a failure, also when the server
\* never comes up.
C13_WaitForServerEnds ==
  /\ (pc = "nav_start") ~> (pc # "nav_start")
  /\ (pc = "spin_send") ~> (pc # "spin_send")


\* -------------------------------------------------------------------- C14
\* C14: a request with an empty leg list is aborted at once: action_server_callback
\* returns from the check of the list with the result aborted, having switched no
\* mode, waited for no fix, run no order planner and sent no goal.
C14_EmptyLegListAborts ==
  (pc # "idle" /\ legs = << >>) =>
    /\ MissionEnded
    /\ result = [status |-> "aborted",
                 msg |-> "Well that was less-than-interstellar of you"]
    /\ exc = "none"
    /\ modeCalls = << >>
    /\ goal_handle = "none"
    /\ leg = "start"

C14_Witness ==
  /\ MissionEnded
  /\ legs = << >>
  /\ result.status = "aborted"
  /\ ~filtered_gps
  /\ order_planner \notin OrderPlanners

\* -------------------------------------------------------------------- C15
\* A leg for which exec_leg calls gps_nav: of a leg type and with a waypoint.
Navigable(l) == IsValidLeg(l) /\ l \in DOMAIN wps

\* C15, as stated: a request (with legs) run under an unknown order planner or an
\* unknown path planner ends aborted, with no goal sent.
C15_BadPlannerAborts ==
  (MissionEnded /\ legs # << >> /\
     (order_planner \notin OrderPlanners \/ path_planner \notin PathPlanners)) =>
    (result.status = "aborted" /\ goal_handle = "none")

\* C15, amended: under an unknown order planner the request is aborted before any
\* leg starts; under an unknown path planner no goal is ever sent and the request
\* is aborted in the first gps_nav call, so a request none of whose legs reaches
\* gps_nav (unknown leg names, legs without a waypoint) ends succeeded.
C15_BadPlannerSendsNoGoal ==
  /\ order_planner \notin OrderPlanners =>
       /\ goal_handle = "none" /\ legIdx = 0
       /\ MissionEnded /\ legs # << >> => result.status = "aborted"
  /\ path_planner \notin PathPlanners =>
       /\ goal_handle = "none" /\ CountMode("arrival") = 0
       /\ exc = "Invalid path planner provided" =>
            (phase = "direct" /\ Navigable(leg) /\
             \A k \in 1..(legIdx - 1) : ~Navigable(legs[k]))
       /\ MissionEnded /\ legs # << >> /\ order_planner \in OrderPlanners =>
            IF \E k \in 1..Len(legs) : Navigable(legs[k])
            THEN result.status = "aborted"
            ELSE result.status = "succeeded" \/ cancelReq

C15_Witness ==
  /\ MissionEnded
  /\ exc = "Invalid path planner provided"
  /\ legIdx = 2
  /\ goal_handle = "none"


\* -------------------------------------------------------------------- C16
\* The request has returned succeeded and each of its legs reached its arrival.
AllLegsSucceeded ==
  /\ MissionEnded
  /\ result.status = "succeeded"
  /\ failedAt = 0
  /\ \A k \in 1..Len(legs) : Navigable(legs[k])

\* C16, as stated: a request whose n legs all succeed makes exactly n arrival
\* switches, n autonomous switches and one teleop switch.
C16_ModeSwitchesPerLeg ==
  AllLegsSucceeded =>
    /\ CountMode("arrival") = Len(legs)
    /\ CountMode("auto") = Len(legs)
    /\ CountMode("teleop") = 1

\* C16, amended: a request whose n legs all succeed makes n + 1 autonomous
\* switches (one before the first leg and one after the dwell of each leg), n
\* arrival switches and one final teleop switch, in this order: auto, then
\* arrival and auto for each leg, then teleop.
C16_ModeSwitchSequence ==
  AllLegsSucceeded =>
    /\ Len(modeCalls) = 2 * Len(legs) + 2
    /\ modeCalls[1] = [m |-> "auto", i |-> 0]
    /\ \A k \in 1..Len(legs) :
         /\ modeCalls[2 * k] = [m |-> "arrival", i |-> k]
         /\ modeCalls[2 * k + 1] = [m |-> "auto", i |-> k]
    /\ modeCalls[Len(modeCalls)] = [m |-> "teleop", i |-> Len(legs)]
    /\ CountMode("auto") = Len(legs) + 1

C16_Witness ==
  /\ AllLegsSucceeded
  /\ legs = <<"gps1", "aruco1">>
  /\ CountMode("arrival") = 2
  /\ CountMode("auto") = 3
  /\ CountMode("teleop") = 1


\* -------------------------------------------------------------------- C17
\* A step of gps_nav or spin_search that reports a detection to its caller.
ReportsDetection == lastCancel'.why = "detection" /\ lastCancel' # lastCancel

\* C17: hex_search sends its path goals to the vertices of hex_coord in the
\* order of the table, first to last, each followed by its spin search, at
\* most Len(hex_coord) of them; a detection reported by the navigation to vertex
\* k or by the spin search at k ends the sweep: the convergence loop starts and the
\* leg sends no further goal toward a vertex.
C17_HexSweepOrder ==
  [][ /\ hexI' \in 0..Len(hex_coord)
      /\ (lastSubmit'.phase = "hexnav" /\ lastSubmit' # lastSubmit) =>
           /\ lastSubmit'.kind = "path"
           /\ lastSubmit'.dest = HexWp(leg, hexI)
           /\ hexI' = hexI
      /\ (phase' = "hexnav" /\ phase # "hexnav") =>
           IF phase = "spin" THEN hexI' = 1
           ELSE phase = "hexspin" /\ hexI' = hexI + 1
      /\ (phase' = "hexspin" /\ phase # "hexspin") =>
           (phase = "hexnav" /\ hexI' = hexI)
      /\ (phase \in {"hexnav", "hexspin"} /\ ReportsDetection /\ ~CanceledByClient') =>
           (phase' = "converge" /\ found_loc' # None /\ pc' = "nav_start")
      /\ phase = "converge" => phase' \in {"converge", "none"}
    ]_vars

C17_Witness ==
  /\ phase = "hexspin"
  /\ hexI = 3
  /\ pc = "spin_body"
  /\ found_check # None
  /\ ~cancelReq


\* -------------------------------------------------------------------- C18
\* C18: the convergence loop of exec_leg makes at most K + 1 gps_nav calls when
\* the tracked pose changes materially K times: each restart of gps_nav follows
\* a material change of its own, and a gps_nav call whose goal has ended with
\* no such change returns False, which ends the loop with the arrival of the leg.
C18_ConvergenceBounded ==
  /\ [](phase = "converge" => (attempts >= 1 /\ attempts <= updates + 1))
  /\ [][(phase = "converge" /\ pc = "nav_result" /\ pc' # pc) =>
          (pc' = "trig_arrival" /\ phase' = "none")]_vars

C18_Witness ==
  /\ phase = "converge"
  /\ pc = "nav_result"
  /\ updates = 2
  /\ attempts = 3
  /\ cur.state = "succeeded"


\* -------------------------------------------------------------------- C19
\* C19, as stated: once task_goal_handle.is_cancel_requested is set, the mission
\* thread sends no new goal and makes no arrival switch.
C19_NoNewStepAfterCancel ==
  [][cancelReq =>
       /\ lastSubmit' \in {lastSubmit, NoSubmit}
       /\ UNCHANGED <<goal_handle, result_future>>
       /\ (CountMode("arrival"))' = CountMode("arrival")]_vars

\* -------------------------------------------------------------------- C20
\* C20, as stated: a perception callback stores a pose only under the leg it
\* matched the detection against, whatever the mission thread does between the
\* callback's leg check and its store, and no callback fails on a lookup by
\* self.leg.
C20_StoredUnderMatchedLeg ==
  /\ [](~cbError)
  /\ [][found_poses' # found_poses /\ cb.pc \in {"a_conv", "o_conv"} =>
          /\ leg = cb.label
          /\ found_poses' = [found_poses EXCEPT ![cb.label] = found_poses'[cb.label]]]_vars


\* -------------------------------------------------------------------- C21
\* The flows that are inside a call-issuing operation of client c.
Inside(c) == {f \in Flows : flow[f].pc = "inside" /\ flow[f].client = c}

\* C21, as stated: from the first call on, no two control flows are inside the
\* call-issuing operations of one client at the same time, and no control flow
\* holds a lock while it awaits an answer.
C21_OneFlowInsideClient ==
  /\ \A c \in Clients : Cardinality(Inside(c)) <= 1
  /\ \A f \in Flows : flow[f].pc = "await" =>
       \A c \in Clients : \A g \in Flows : owner[c][g] # f


\* -------------------------------------------------------------------- C22
\* C22: on a target leg, when the polling loop of the direct gps_nav sees a
\* pose of the current leg while its goal is in flight, that goal gets one
\* cancel request and exec_leg goes straight to the convergence loop with the
\* seen pose; the convergence loop never turns into a spin or hex search, and
\* every goal it sends is a path goal toward the pose it navigates to.
C22_DetectionIsEarlySuccess ==
  [][/\ ( /\ pc = "nav_body" /\ phase = "direct" /\ leg \in TargetLegs
          /\ ~cancelReq /\ found_check # None /\ pc' # pc )
        => /\ pc' = "nav_start" /\ phase' = "converge"
           /\ found_loc' = found_check
           /\ lastCancel'.why = "detection"
           /\ (result_future /\ HandleState = "executing")
                => (lastCancel'.sent /\ cur'.state = "canceling")
     /\ phase = "converge" => phase' \in {"converge", "none"}
     /\ (phase' = "converge" /\ lastSubmit'.kind # "none")
        => (lastSubmit'.kind = "path" /\ lastSubmit'.dest = found_loc')
    ]_vars

C22_Witness ==
  /\ pc = "nav_poll" /\ phase = "converge" /\ attempts = 1
  /\ lastSubmit.kind = "path" /\ lastSubmit.dest = found_loc
  /\ servers = {"path"} /\ oldCanceling = 1 /\ oldExec = 0


\* -------------------------------------------------------------------- C23
\* C23: on a target leg the spin search at the waypoint starts only when the
\* direct gps_nav has left its polling loop as complete and returned False; the
\* hex search starts only when that spin search has left its polling loop as
\* complete, with no cancel of its own, and returned False; a pose seen by the
\* polling loop of the spin search cancels the spin goal and is returned to
\* exec_leg, which starts the convergence loop and no hex search.
C23_SearchEscalatesInOrder ==
  [][/\ (phase' = "spin" /\ phase # "spin")
        => (pc = "nav_result" /\ phase = "direct" /\ leg \in TargetLegs
            /\ lastCancel.why = "none")
     /\ (phase' = "hexnav" /\ phase \notin {"hexnav", "hexspin"})
        => (pc = "spin_result" /\ phase = "spin" /\ lastCancel.why = "none"
            /\ hexI' = 1)
     /\ ( /\ pc = "spin_body" /\ phase = "spin" /\ ~cancelReq
          /\ found_check # None /\ pc' # pc )
        => /\ pc' = "nav_start" /\ phase' = "converge"
           /\ found_loc' = found_check
           /\ lastCancel'.why = "detection"
           /\ (result_future /\ HandleState = "executing")
                => (lastCancel'.sent /\ cur'.state = "canceling")
    ]_vars

C23_Witness ==
  /\ pc = "nav_start" /\ phase = "hexnav" /\ hexI = 1
  /\ cur.kind = "spin" /\ cur.state = "succeeded"
  /\ found_check = None


\* -------------------------------------------------------------------- C24
\* C24, as stated: in the hex search no path goal toward a vertex is sent while
\* a pose of the current leg is already recorded.
C24_NoGoalToVertexOnceDetected ==
  [][(pc = "nav_start" /\ phase = "hexnav" /\ found_check # None)
       => ~(lastSubmit'.kind = "path" /\ lastSubmit' # lastSubmit)]_vars

\* C24, amended: hex_search looks at the recorded poses only inside the polling
\* loops of gps_nav and spin_search. The path goal toward each vertex is sent
\* first, whether or not a pose is recorded; the first poll that finds the goal
\* unfinished and a pose recorded cancels it, ends the sweep and starts the
\* convergence loop with that pose.
C24_VertexGoalSentBeforeCheck ==
  [][/\ (pc = "nav_start" /\ phase = "hexnav" /\ (pc' # pc \/ phase' # phase))
        => /\ pc' = "nav_poll" /\ phase' = "hexnav" /\ hexI' = hexI
           /\ lastSubmit'.kind = "path"
           /\ lastSubmit'.dest = HexWp(leg, hexI)
     /\ ( /\ pc \in {"nav_body", "spin_body"} /\ phase \in {"hexnav", "hexspin"}
          /\ ~cancelReq /\ found_check # None /\ pc' # pc )
        => /\ pc' = "nav_start" /\ phase' = "converge"
           /\ found_loc' = found_check
           /\ lastCancel'.why = "detection"
    ]_vars

C24_Witness ==
  /\ pc = "nav_start" /\ phase = "hexnav" /\ hexI = 2
  /\ found_check # None


\* -------------------------------------------------------------------- C25
\* C25: in the convergence loop a poll that finds the goal unfinished compares
\* the tracked pose with the destination of the running gps_nav call. If the
\* latitude or the longitude differs by more than update_threshold the goal gets
\* one cancel request and gps_nav is called again with the tracked pose;
\* otherwise nothing is canceled and the destination stays. Every goal the loop
\* sends is a path goal toward the destination of its gps_nav call. The loop
\* ends in the arrival only out of a gps_nav call that left its polling loop as
\* complete with no cancel of its own, and no goal is executing then.
C25_ConvergenceLoop ==
  [][/\ ( /\ pc = "nav_body" /\ phase = "converge" /\ ~cancelReq
          /\ found_check # None /\ (pc' # pc \/ found_loc' # found_loc) )
        => IF \/ Abs(found_check[1] - found_loc[1]) > update_threshold
              \/ Abs(found_check[2] - found_loc[2]) > update_threshold
           THEN /\ pc' = "nav_start" /\ phase' = "converge"
                /\ found_loc' = found_check
                /\ lastCancel'.why = "update"
                /\ (result_future /\ HandleState = "executing")
                     => (lastCancel'.sent /\ cur'.state = "canceling")
           ELSE /\ pc' = "nav_poll" /\ phase' = "converge"
                /\ found_loc' = found_loc
                /\ lastCancel' = lastCancel /\ cur' = cur
     /\ (phase' = "converge" /\ lastSubmit'.kind = "path")
        => lastSubmit'.dest = found_loc'
     /\ (phase = "converge" /\ pc' = "trig_arrival" /\ pc # pc')
        => /\ pc = "nav_result" /\ lastCancel.why = "none"
           /\ cur.state # "executing" /\ oldExec = 0
    ]_vars

C25_Witness ==
  /\ pc = "nav_poll" /\ phase = "converge" /\ attempts = 2
  /\ goal_handle = "accepted" /\ cur.state = "executing"
  /\ lastSubmit.kind = "path" /\ lastSubmit.dest = found_loc
  /\ found_check = found_loc


\* -------------------------------------------------------------------- C26
\* C26: a leg that succeeded switches to the arrival mode, sleeps, and switches
\* to the autonomous mode, in this order; no goal is sent from the arrival
\* switch to the autonomous switch, and the leg index moves on only out of the
\* for loop, which the thread is back in only in the autonomous mode.
C26_ArrivalDwellAuto ==
  [][/\ (pc = "trig_arrival" /\ pc' # pc)
        => /\ pc' = "dwell"
           /\ modeCalls' = Append(modeCalls, [m |-> "arrival", i |-> legIdx])
     /\ (pc = "dwell" /\ pc' # pc)
        => /\ pc' = "for_leg"
           /\ modeCalls' = Append(modeCalls, [m |-> "auto", i |-> legIdx])
     /\ pc \in {"trig_arrival", "dwell"}
        => /\ lastSubmit' = lastSubmit /\ goal_handle' = goal_handle
           /\ result_future' = result_future
           /\ legIdx' = legIdx /\ leg' = leg
     /\ mode' = "arrival" => pc' = "dwell"
     /\ (legIdx' # legIdx /\ legIdx > 0) => (pc = "for_leg" /\ mode = "auto")
    ]_vars

C26_Witness ==
  /\ pc = "nav_start" /\ legIdx = 2 /\ Len(modeCalls) >= 3
  /\ modeCalls[Len(modeCalls)] = [m |-> "auto", i |-> 1]
  /\ modeCalls[Len(modeCalls) - 1] = [m |-> "arrival", i |-> 1]


\* -------------------------------------------------------------------- C27
\* C27: after the order planner the leg list stays as planned; the for loop
\* takes its elements one at a time and in order, each exactly once, a new one
\* only once exec_leg of the one before has returned; while a leg runs, self.leg
\* is that element; and the request succeeds only after the last element.
C27_LegsInPlannedOrder ==
  [][/\ legs' # legs => pc \in {"idle", "returned", "plan"}
     /\ (legIdx' # legIdx /\ pc \notin {"idle", "returned"})
        => /\ pc = "for_leg" /\ legIdx' = legIdx + 1
           /\ legIdx' <= Len(legs) /\ leg' = legs[legIdx']
     /\ pc' \in {"nav_start", "nav_poll", "nav_body", "nav_result", "spin_send",
                 "spin_poll", "spin_body", "spin_result", "trig_arrival", "dwell"}
        => (legIdx' \in 1..Len(legs') /\ leg' = legs'[legIdx'])
     /\ (pc' = "task_end" /\ pc # "task_end")
        => (pc = "for_leg" /\ legIdx = Len(legs))
     /\ result'.status = "succeeded" => legIdx' = Len(legs')
    ]_vars

C27_Witness ==
  /\ pc = "returned" /\ result.status = "succeeded"
  /\ Len(legs) = 2 /\ legIdx = 2 /\ leg = "end"
  /\ \E i \in 1..Len(modeCalls) : modeCalls[i] = [m |-> "arrival", i |-> 2]


\* -------------------------------------------------------------------- C28
\* C28, as stated: whenever the polling loop of gps_nav or spin_search asks
\* isTaskComplete, the result future it reads is the one of the goal that this
\* gps_nav or spin_search call has sent.
C28_CompletionOfLatestGoal ==
  (pc \in {"nav_poll", "spin_poll"} /\ result_future)
    => (goal_handle = "accepted" /\ cur.kind = lastSubmit.kind)


\* -------------------------------------------------------------------- C29
\* The requests whose execute callback is running.
Executing == {r \in Requests : serve[r].pc \in {"started", "running"}}

\* C29, as stated: at most one action_server_callback runs at a time, and while
\* one runs the task goal handle and the leg list are the ones of its request.
C29_OneMissionAtATime ==
  /\ Cardinality(Executing) <= 1
  /\ \A r \in Requests : serve[r].pc = "running"
       => (task_goal_handle = r /\ legs \in Perms(serve[r].legs))


\* -------------------------------------------------------------------- C30
\* C30, as stated: at the step that makes a target leg the current leg,
\* found_poses holds no pose under the label of that leg.
C30_NoPoseBeforeLegStarts ==
  [][(legIdx' # legIdx /\ leg' \in TargetLegs) => found_poses[leg'] = None]_vars


\* -------------------------------------------------------------------- C31
\* C31: the exec_leg call of a list element that is of no leg type or has no
\* waypoint sets self.leg and returns to the for loop: it sends no goal, calls
\* no mode switch, raises nothing and leaves the goal state, the recorded poses
\* and the result as they were. No goal and no arrival or autonomous switch is
\* ever made for such an element.
C31_UnknownLegChangesNothing ==
  [][/\ ( /\ legIdx' # legIdx /\ pc \notin {"idle", "returned"}
          /\ ~(IsValidLeg(leg') /\ leg' \in DOMAIN wps) )
        => /\ pc' = "for_leg" /\ leg' = legs[legIdx'] /\ legs' = legs
           /\ goal_handle' = goal_handle /\ result_future' = result_future
           /\ cur' = cur /\ lastSubmit' = lastSubmit
           /\ modeCalls' = modeCalls /\ mode' = mode
           /\ result' = result /\ exc' = exc
           /\ found_poses' = found_poses /\ failedAt' = failedAt
     /\ lastSubmit'.kind # "none"
        => (IsValidLeg(lastSubmit'.leg) /\ lastSubmit'.leg \in DOMAIN wps)
     /\ \A k \in 1..Len(modeCalls') :
          (modeCalls'[k].m = "arrival" \/ (modeCalls'[k].m = "auto" /\ modeCalls'[k].i > 0))
            => ( /\ IsValidLeg(legs'[modeCalls'[k].i])
                 /\ legs'[modeCalls'[k].i] \in DOMAIN wps )
    ]_vars

C31_Witness ==
  /\ pc = "returned" /\ result.status = "succeeded" /\ exc = "none"
  /\ Len(legs) = 2 /\ legs[1] \in {"rock", "gps2"} /\ legs[2] = "gps1"
  /\ Len(modeCalls) = 4
  /\ modeCalls[2] = [m |-> "arrival", i |-> 2]

====
